---- MODULE Spec2Model ----
(***************************************************************************)
(* A model of yt_playlist_export.py: the text helpers, the record mapper,  *)
(* the two playlist builders, the exporters and the orchestrator main().   *)
(*                                                                         *)
(* Text is a sequence of characters.  An ordinary character is a one-      *)
(* character string; the characters the helpers treat specially are named: *)
(*   "NBSP" U+00A0, "LDR" U+2024, "ZWSP" U+200B, "BOM" U+FEFF.             *)
(* A loosely typed Python value (a dict field of the extractor) is a       *)
(* record [k, v, n]: k = "absent" (key missing), "none" (None), "str"      *)
(* (text v), "num" (integer n) or "list" (list v).                         *)
(***************************************************************************)
EXTENDS Integers, Sequences, FiniteSets, TLC

\* ---------------------------------------------------------------- bounds
\* Longest text handed to clean_text in SpecText.
MaxLen == 3
\* Most playlist URLs on one command line.
MaxUrls == 2
\* Longest raw entry list handed to build_freetube_from_entries in SpecEntries.
MaxEntries == 3
\* Longest video list and largest chunk size handed to the chunked export in SpecSplit.
MaxVids == 7
MaxSplit == 3

\* ---------------------------------------------------------- Python values
Absent == [k |-> "absent", v |-> <<>>, n |-> 0]
None == [k |-> "none", v |-> <<>>, n |-> 0]
Str(s) == [k |-> "str", v |-> s, n |-> 0]
Num(i) == [k |-> "num", v |-> <<>>, n |-> i]
List(s) == [k |-> "list", v |-> s, n |-> 0]

\* Python truthiness of a value: None, "", [] and 0 are falsy.
Truthy(x) == (x.k \in {"str", "list"} /\ x.v # <<>>) \/ (x.k = "num" /\ x.n # 0)

\* Python's `a or b`.
Or(a, b) == IF Truthy(a) THEN a ELSE b

\* dict.get(key): a missing key reads as None.
Get(x) == IF x.k = "absent" THEN None ELSE x

DigitChars == <<"0", "1", "2", "3", "4", "5", "6", "7", "8", "9">>
DigitSet == {DigitChars[i] : i \in 1..10}

RECURSIVE Digits(_)
\* str(i) of a non-negative integer.
Digits(i) == IF i < 10 THEN <<DigitChars[i + 1]>>
             ELSE Digits(i \div 10) \o <<DigitChars[(i % 10) + 1]>>

\* str(x) of a value that is not None.
PyStr(x) == IF x.k = "num" THEN Digits(x.n) ELSE x.v

\* ---------------------------------------------------------- text helpers
\* The characters str.strip() removes (Unicode whitespace): U+00A0 is one,
\* the zero-width characters are not.
Whitespace == {" ", "\t", "\n", "NBSP"}
\* ZERO_WIDTH: the class U+200B-U+200F plus U+FEFF.
ZERO_WIDTH == {"ZWSP", "BOM"}

RECURSIVE LStrip(_, _)
LStrip(s, cs) == IF s # <<>> /\ Head(s) \in cs THEN LStrip(Tail(s), cs) ELSE s

RECURSIVE RStrip(_, _)
RStrip(s, cs) == IF s # <<>> /\ s[Len(s)] \in cs
                 THEN RStrip(SubSeq(s, 1, Len(s) - 1), cs) ELSE s

\* str.strip(chars)
Strip(s, cs) == RStrip(LStrip(s, cs), cs)

\* str.replace(old, new) for single characters.
Replace(s, old, new) == [i \in 1..Len(s) |-> IF s[i] = old THEN new ELSE s[i]]

IsNotZeroWidth(c) == c \notin ZERO_WIDTH

\* clean_text(s): "" for None, else strip, replace NBSP and the one dot
\* leader, and only then remove the zero-width characters.
clean_text(x) ==
    IF x.k = "none" \/ x.k = "absent" THEN <<>>
    ELSE SelectSeq(Replace(Replace(Strip(PyStr(x), Whitespace), "NBSP", " "), "LDR", "."),
                   IsNotZeroWidth)

IsDigit(c) == c \in DigitSet

\* to_int_str(val): "" for None, else the digits of str(val).
to_int_str(x) == IF x.k = "none" \/ x.k = "absent" THEN <<>> ELSE SelectSeq(PyStr(x), IsDigit)

DigitValue(c) == CHOOSE i \in 0..9 : DigitChars[i + 1] = c

RECURSIVE IntOf(_)
\* int(s) of a digit string.
IntOf(s) == IF s = <<>> THEN 0
            ELSE 10 * IntOf(SubSeq(s, 1, Len(s) - 1)) + DigitValue(s[Len(s)])

\* int(to_int_str(v or 0) or 0)
ToInt(x) == LET t == to_int_str(Or(Get(x), Num(0)))
            IN  IF t = <<>> THEN 0 ELSE IntOf(t)

Upper == {"A", "B", "C", "D", "E", "F", "G", "H", "I", "J", "K", "L", "M",
          "N", "O", "P", "Q", "R", "S", "T", "U", "V", "W", "X", "Y", "Z"}
Lower == {"a", "b", "c", "d", "e", "f", "g", "h", "i", "j", "k", "l", "m",
          "n", "o", "p", "q", "r", "s", "t", "u", "v", "w", "x", "y", "z"}

\* [A-Za-z0-9._-], the characters sanitize_name keeps.
NameChars == Upper \cup Lower \cup DigitSet \cup {".", "_", "-"}

RECURSIVE SquashRuns(_)
\* re.sub(r"[^A-Za-z0-9._-]+", "_", name): each run of other characters
\* becomes one underscore.
SquashRuns(s) ==
    IF s = <<>> THEN <<>>
    ELSE IF Head(s) \in NameChars THEN <<Head(s)>> \o SquashRuns(Tail(s))
    ELSE <<"_">> \o SquashRuns(LStrip(s, {c \in {s[i] : i \in 1..Len(s)} : c \notin NameChars}))

sanitize_name(name) == Strip(SquashRuns(name), {"_"})

\* ---------------------------------------------------------- record mapper
NA == <<"N", "/", "A">>
ImportedPlaylist == <<"I", "m", "p", "o", "r", "t", "e", "d", " ",
                      "P", "l", "a", "y", "l", "i", "s", "t">>

\* A raw extractor record (a dict): every field is a Python value.
RawEntry(id, title, channel, uploader, channel_id, uploader_id, duration, timestamp) ==
    [id |-> id, title |-> title, channel |-> channel, uploader |-> uploader,
     channel_id |-> channel_id, uploader_id |-> uploader_id,
     duration |-> duration, timestamp |-> timestamp]

\* FreeTubeVideo.from_ytdlp_entry(e).  timeAdded and playlistItemId (the
\* clock and a fresh uuid4) are not part of the record modelled here.
from_ytdlp_entry(e) ==
    [videoId |-> clean_text(Or(Get(e.id), Str(NA))),
     title |-> clean_text(Or(Get(e.title), Str(NA))),
     author |-> clean_text(Or(Or(Get(e.channel), Get(e.uploader)), Str(NA))),
     authorId |-> clean_text(Or(Or(Get(e.channel_id), Get(e.uploader_id)), Str(NA))),
     lengthSeconds |-> ToInt(e.duration),
     published |-> ToInt(e.timestamp)]

\* FreeTubeVideo.placeholder(video_id): the dataclass defaults.
placeholder(video_id) ==
    [videoId |-> video_id, title |-> NA, author |-> NA, authorId |-> NA,
     lengthSeconds |-> 0, published |-> 0]

\* FreeTubePlaylist.new(name, description)
new(name, description) ==
    [playlistName |-> PyStr(Or(name, Str(ImportedPlaylist))),
     protected |-> FALSE,
     description |-> PyStr(Or(description, Str(<<>>))),
     videos |-> <<>>]

\* FreeTubePlaylist.add_video(v)
add_video(pl, v) == [pl EXCEPT !.videos = Append(@, v)]

\* FreeTubePlaylist.to_json_obj(): the dict of the dataclass, videos included.
to_json_obj(pl) == pl

\* [v.videoId for v in ft.videos]
VideoIds(pl) == [i \in 1..Len(pl.videos) |-> pl.videos[i].videoId]

\* -------------------------------------------------------------- builders
\* vid = clean_text(e.get("id") or "")
EntryVid(e) == clean_text(Or(Get(e.id), Str(<<>>)))

\* A faulty loop body: an entry with an empty ID is mapped like the others.
entries_step_noskip(ft, e) == add_video(ft, from_ytdlp_entry(e))

\* One iteration of the loop of build_freetube_from_entries.
entries_step(ft, e) ==
    IF EntryVid(e) = <<>> THEN ft ELSE add_video(ft, from_ytdlp_entry(e))

RECURSIVE entries_loop(_, _)
entries_loop(ft, entries) ==
    IF entries = <<>> THEN ft
    ELSE entries_loop(entries_step(ft, Head(entries)), Tail(entries))

\* build_freetube_from_entries(info, name, description); info is
\* [title, entries], both Python values.
build_freetube_from_entries(info, name, description) ==
    LET entries == Or(Get(info.entries), List(<<>>)).v
        pl_name == Or(Or(name, Str(clean_text(Or(Get(info.title), Str(<<>>))))),
                      Str(ImportedPlaylist))
    IN  entries_loop(new(pl_name, description), entries)

\* ---------------------------------------------------------------- inputs
\* YT_ID_RE = ([A-Za-z0-9_-]{10}[AEIMQUYcgkosw048])
IdChars == Upper \cup Lower \cup DigitSet \cup {"_", "-"}
IdLastChars == {"A", "E", "I", "M", "Q", "U", "Y", "c", "g", "k", "o", "s", "w",
                "0", "4", "8"}
IdBodyLen == 10

\* The pattern matches the IdBodyLen + 1 characters of line starting at p.
MatchAt(line, p) ==
    /\ p + IdBodyLen <= Len(line)
    /\ \A j \in 0..(IdBodyLen - 1) : line[p + j] \in IdChars
    /\ line[p + IdBodyLen] \in IdLastChars

\* YT_ID_RE.search(line): the leftmost match, <<>> when there is none.
Search(line) ==
    LET ps == {p \in 1..Len(line) : MatchAt(line, p)}
    IN  IF ps = {} THEN <<>>
        ELSE LET p == CHOOSE q \in ps : \A r \in ps : q <= r
             IN  SubSeq(line, p, p + IdBodyLen)

\* One iteration of the loop of read_ids_file.
ids_line(found, raw) ==
    LET line == Strip(raw, Whitespace)
    IN  IF line = <<>> \/ Head(line) = "#" THEN found
        ELSE IF Search(line) # <<>> THEN Append(found, Search(line)) ELSE found

RECURSIVE ids_loop(_, _)
ids_loop(found, lines) ==
    IF lines = <<>> THEN found ELSE ids_loop(ids_line(found, Head(lines)), Tail(lines))

\* read_ids_file(path), given the lines of the file.
read_ids_file(lines) == ids_loop(<<>>, lines)

\* ---------------------------------------------------------- yt-dlp client
\* What YoutubeDL.extract_info does on one call: it raises, returns nothing,
\* or returns a record.
Raised == [r |-> "raise", info |-> <<>>]
Nothing == [r |-> "none", info |-> <<>>]
Info(d) == [r |-> "info", info |-> <<d>>]

\* {"id": video_id}
OnlyId(video_id) ==
    RawEntry(Str(video_id), Absent, Absent, Absent, Absent, Absent, Absent, Absent)

\* YTDLPClient.extract_video_min(video_id), given what extract_info did.
extract_video_min(video_id, out) ==
    IF out.r = "info" THEN out.info[1] ELSE OnlyId(video_id)

\* A faulty loop body: a record without a title is mapped as a full record.
ids_step_nofallback(ft, vid, meta) == add_video(ft, from_ytdlp_entry(meta))

\* One iteration of the loop of build_freetube_from_ids.
ids_step(ft, vid, meta) ==
    IF meta.id.k # "absent" /\ Get(meta.title).k # "none"
    THEN add_video(ft, from_ytdlp_entry(meta))
    ELSE add_video(ft, placeholder(vid))

\* -------------------------------------------------------------- exporters
WatchUrlWww == <<"h", "t", "t", "p", "s", ":", "/", "/", "w", "w", "w", ".",
    "y", "o", "u", "t", "u", "b", "e", ".", "c", "o", "m", "/", "w", "a",
    "t", "c", "h", "?", "v", "=">>
WatchUrl == <<"h", "t", "t", "p", "s", ":", "/", "/", "y", "o", "u", "t",
    "u", "b", "e", ".", "c", "o", "m", "/", "w", "a", "t", "c", "h", "?",
    "v", "=">>
ChannelUrl == <<"h", "t", "t", "p", "s", ":", "/", "/", "w", "w", "w", ".",
    "y", "o", "u", "t", "u", "b", "e", ".", "c", "o", "m", "/", "c", "h",
    "a", "n", "n", "e", "l", "/">>
Unknown == <<"U", "n", "k", "n", "o", "w", "n">>
PlaylistsDb == <<"p", "l", "a", "y", "l", "i", "s", "t", "s", ".", "d", "b">>
PipedJson == <<"p", "i", "p", "e", "d", ".", "j", "s", "o", "n">>
PipedCsv == <<"p", "i", "p", "e", "d", ".", "c", "s", "v">>
UrlsTxt == <<"u", "r", "l", "s", ".", "t", "x", "t">>
IdsTxt == <<"i", "d", "s", ".", "t", "x", "t">>
NewpipeJson == <<"n", "e", "w", "p", "i", "p", "e", "-", "s", "u", "b", "s",
    "c", "r", "i", "p", "t", "i", "o", "n", "s", ".", "j", "s", "o", "n">>
DotJson == <<".", "j", "s", "o", "n">>
DotFreetubeJson == <<".", "f", "r", "e", "e", "t", "u", "b", "e", ".", "j",
    "s", "o", "n">>
Piped == <<"p", "i", "p", "e", "d">>
CsvHeader == <<"v", "i", "d", "e", "o", "I", "d", ",", "a", "d", "d", "e",
    "d", "A", "t">>

\* A file is named by its directory and its file name; the file system maps
\* the files that exist to their content, a sequence of items.  A JSON
\* document is one item [json, nl] (nl: a newline follows it); a line of a
\* text file is its characters.
Path(dir, file) == [dir |-> dir, file |-> file]

\* open(path, "w") ... write: the file is created or truncated.
WriteFile(fs, path, content) == (path :> content) @@ fs

\* A faulty append: the file is opened for writing, not appending.
AppendFile_truncating(fs, path, content) == (path :> content) @@ fs

\* open(path, "a") ... write: the file is created or extended.
AppendFile(fs, path, content) ==
    IF path \in DOMAIN fs THEN [fs EXCEPT ![path] = @ \o content]
    ELSE (path :> content) @@ fs

Json(obj) == [json |-> obj, nl |-> FALSE]
JsonLine(obj) == [json |-> obj, nl |-> TRUE]

\* freetube_db_path(user_path) with no --path: the platform's default
\* FreeTube directory, and playlists.db in it.
freetube_db_path == Path("FreeTube", PlaylistsDb)

\* ensure_file_exists(path) succeeds: the parent directory exists; the file
\* is created empty when missing.
ensure_file_exists(fs, path) == IF path \in DOMAIN fs THEN fs ELSE (path :> <<>>) @@ fs

\* export_freetube_db(pl, user_path, quiet) when the parent directory exists.
export_freetube_db(fs, pl) ==
    AppendFile(ensure_file_exists(fs, freetube_db_path), freetube_db_path,
               <<JsonLine(to_json_obj(pl))>>)

\* export_freetube_json(pl, out_path, pretty, quiet); out_path "" is <<>>.
export_freetube_json(fs, pl, out_dir, out_file) ==
    LET path == IF out_file # <<>> THEN Path(out_dir, out_file)
                ELSE Path(".", sanitize_name(pl.playlistName) \o DotFreetubeJson)
    IN  WriteFile(fs, path, <<Json(to_json_obj(pl))>>)

\* The payload of the Piped exporters for a list of (name, video IDs).
PipedPayload(playlists) ==
    [format |-> "Piped", version |-> 1,
     playlists |-> [i \in 1..Len(playlists) |->
        [name |-> playlists[i][1], type |-> "playlist", visibility |-> "private",
         videos |-> [j \in 1..Len(playlists[i][2]) |-> WatchUrl \o playlists[i][2][j]]]]]

\* export_piped_json(playlists, out_path, pretty, quiet)
export_piped_json(fs, playlists) ==
    WriteFile(fs, Path(".", PipedJson), <<Json(PipedPayload(playlists))>>)

\* f"{n:03}": at least three digits, zero padded.
Fmt03(i) == LET d == Digits(i)
            IN  IF Len(d) >= 3 THEN d ELSE [j \in 1..(3 - Len(d)) |-> "0"] \o d

\* os.path.join("chunks", base) for the default base "piped".
ChunkDir == "chunks/piped"

\* A faulty chunk: the slice is one video short.
chunk_write_short(name, vids, i, split) ==
    [path |-> Path(ChunkDir,
                   Piped \o <<"_">> \o sanitize_name(name) \o <<"_">>
                         \o Fmt03((i \div split) + 1) \o DotJson),
     content |-> <<Json(PipedPayload(<<
                    <<name, SubSeq(vids, i + 1,
                                   IF i + split - 1 < Len(vids) THEN i + split - 1
                                   ELSE Len(vids))>> >>))>>]

\* The file written for the chunk vids[i:i+split] of playlist name.
chunk_write(name, vids, i, split) ==
    [path |-> Path(ChunkDir,
                   Piped \o <<"_">> \o sanitize_name(name) \o <<"_">>
                         \o Fmt03((i \div split) + 1) \o DotJson),
     content |-> <<Json(PipedPayload(<<
                    <<name, SubSeq(vids, i + 1,
                                   IF i + split < Len(vids) THEN i + split
                                   ELSE Len(vids))>> >>))>>]

RECURSIVE chunk_loop(_, _, _, _)
\* for i in range(i, len(vids), split), split >= 1
chunk_loop(name, vids, i, split) ==
    IF i >= Len(vids) THEN <<>>
    ELSE <<chunk_write(name, vids, i, split)>> \o chunk_loop(name, vids, i + split, split)

RECURSIVE split_writes(_, _)
\* The files export_piped_json_split writes, in the order it writes them.
split_writes(playlists, split) ==
    IF playlists = <<>> THEN <<>>
    ELSE chunk_loop(Head(playlists)[1], Head(playlists)[2], 0, split)
         \o split_writes(Tail(playlists), split)

RECURSIVE WriteAll(_, _)
WriteAll(fs, ws) ==
    IF ws = <<>> THEN fs
    ELSE WriteAll(WriteFile(fs, Head(ws).path, Head(ws).content), Tail(ws))

\* export_piped_json_split(playlists, base_out, split, split_dir, ...)
export_piped_json_split(fs, playlists, split) == WriteAll(fs, split_writes(playlists, split))

RECURSIVE CsvQuote(_)
CsvQuote(f) == IF f = <<>> THEN <<>>
               ELSE (IF Head(f) = "\"" THEN <<"\"", "\"">> ELSE <<Head(f)>>) \o CsvQuote(Tail(f))

\* One field as csv.writer writes it: quoted when it holds the delimiter,
\* the quote character or a line break.
CsvField(f) ==
    IF \E i \in 1..Len(f) : f[i] \in {",", "\"", "\r", "\n"}
    THEN <<"\"">> \o CsvQuote(f) \o <<"\"">> ELSE f

\* export_piped_csv(video_ids, out_path, quiet): the header row, then one
\* row [vid, ""] per video.
export_piped_csv(fs, video_ids) ==
    WriteFile(fs, Path(".", PipedCsv),
              <<CsvHeader>> \o [i \in 1..Len(video_ids) |-> CsvField(video_ids[i]) \o <<",">>])

\* export_urls(video_ids, out_path, quiet)
export_urls(fs, video_ids) ==
    WriteFile(fs, Path(".", UrlsTxt), [i \in 1..Len(video_ids) |-> WatchUrlWww \o video_ids[i]])

\* export_ids(video_ids, out_path, quiet)
export_ids(fs, video_ids) ==
    WriteFile(fs, Path(".", IdsTxt), [i \in 1..Len(video_ids) |-> video_ids[i]])

RECURSIVE Flatten_rev(_)
\* A faulty flattening: the playlists are taken last to first.
Flatten_rev(sets) == IF sets = <<>> THEN <<>> ELSE Flatten_rev(Tail(sets)) \o Head(sets)[2]

RECURSIVE Flatten(_)
\* vids = []; for _, v in piped_sets: vids.extend(v)
Flatten(sets) == IF sets = <<>> THEN <<>> ELSE Head(sets)[2] \o Flatten(Tail(sets))

\* --------------------------------------------------------- subscriptions
\* A raw channel entry of /feed/channels; nil: the entry is None.
SubEntry(nil, channel_id, id, title, channel) ==
    [nil |-> nil, channel_id |-> channel_id, id |-> id, title |-> title, channel |-> channel]

\* A faulty loop body: an entry without a channel ID is kept.
subs_step_noskip(results, e) ==
    LET ch_id == Or(Or(Get(e.channel_id), Get(e.id)), Str(<<>>))
        name == Or(Or(Get(e.title), Get(e.channel)), Str(Unknown))
    IN  IF e.nil THEN results
        ELSE Append(results, <<ChannelUrl \o PyStr(ch_id), PyStr(name)>>)

\* One iteration of the loop of fetch_subscriptions_via_ytdlp.
subs_step(results, e) ==
    LET ch_id == Or(Get(e.channel_id), Get(e.id))
        name == Or(Or(Get(e.title), Get(e.channel)), Str(Unknown))
    IN  IF e.nil \/ ~Truthy(ch_id) THEN results
        ELSE Append(results, <<ChannelUrl \o PyStr(ch_id), PyStr(name)>>)

RECURSIVE subs_loop(_, _)
subs_loop(results, entries) ==
    IF entries = <<>> THEN results
    ELSE subs_loop(subs_step(results, Head(entries)), Tail(entries))

\* fetch_subscriptions_via_ytdlp raises: extract_info raised, returned nothing,
\* returned a record without "entries", or one whose "entries" is None.
fetch_subscriptions_raises(out) == out.r # "info" \/ out.info[1].entries.k # "list"

\* fetch_subscriptions_via_ytdlp(...) when it returns.
fetch_subscriptions_via_ytdlp(out) == subs_loop(<<>>, out.info[1].entries.v)

\* export_newpipe_subscriptions(subs, out_path, app_ver, app_ver_int, ...)
\* with the parser's defaults for the version fields.
export_newpipe_subscriptions(fs, subs) ==
    WriteFile(fs, Path(".", NewpipeJson),
              <<Json([app_version |-> "0.19.8", app_version_int |-> 953,
                      subscriptions |-> [i \in 1..Len(subs) |->
                          [service_id |-> 0, url |-> subs[i][1], name |-> subs[i][2]]]])>>)

\* ----------------------------------------------------- the inputs of a run
Seqs(S, n) == UNION {[1..m -> S] : m \in 0..n}

LineId1 == <<"d", "Q", "w", "4", "w", "9", "W", "g", "X", "c", "Q">>
LineUrl2 == <<"h", "t", "t", "p", "s", ":", "/", "/", "y", "o", "u", "t",
    "u", ".", "b", "e", "/", "9", "b", "Z", "k", "p", "7", "q", "1", "9",
    "f", "0", "?", "t", "=", "1", "0">>
LineComment == <<"#", " ", "d", "Q", "w", "4", "w", "9", "W", "g", "X", "c",
    "Q">>
LineIndentedComment == <<" ", " ", "#", "9", "b", "Z", "k", "p", "7", "q",
    "1", "9", "f", "0">>
LineBlank == <<" ", " ">>
LineNoId == <<"n", "o", "t", " ", "a", "n", " ", "i", "d", ":", " ", "d",
    "Q", "w", "4", "w", "9", "W", "g", "X", "c", "Z">>
IdsFileStem == <<"i", "d", "s">>
ArgName == <<"M", "y", ":", " ", "P", "L", "!">>
TitleMix == <<"M", "i", "x">>
ChannelC == <<"C", "h", "a", "n">>

\* What --ids-file names: nothing, a file that cannot be opened, or a file
\* with these lines.
NoIdsFile == [given |-> FALSE, exists |-> FALSE, lines |-> <<>>]
MissingIdsFile == [given |-> TRUE, exists |-> FALSE, lines |-> <<>>]
IdsFile(lines) == [given |-> TRUE, exists |-> TRUE, lines |-> lines]
IdsFiles ==
    {NoIdsFile, MissingIdsFile, IdsFile(<<>>),
     IdsFile(<<LineComment, LineBlank, LineNoId, LineIndentedComment>>),
     IdsFile(<<LineBlank, LineId1>>),
     IdsFile(<<LineUrl2, LineComment, LineId1>>)}

Exports == {"freetube-db", "freetube-json", "piped-json", "piped-csv", "urls", "ids",
            "newpipe-subs"}

\* The command lines explored: --split is given only with piped-json,
\* --output, --path and --description are left out.
ArgSet ==
    {a \in [export : Exports, playlist_url : {[i \in 1..m |-> i] : m \in 0..MaxUrls},
            ids_file : IdsFiles, name : {None, Str(ArgName)}, split : 0..2] :
        a.split # 0 => a.export = "piped-json"}

\* What extract_info may do for the video vid.
VideoOutcomes(vid) ==
    {Raised, Nothing,
     Info(RawEntry(Str(vid), Str(TitleMix), Str(ChannelC), Absent, Absent, Str(ChannelC),
                   Num(61), Absent)),
     Info(RawEntry(Str(vid), None, Str(ChannelC), Absent, Str(ChannelC), Absent,
                   Num(61), Num(7))),
     Info(RawEntry(Absent, Str(TitleMix), Str(ChannelC), Absent, Absent, Absent,
                   Absent, Absent)),
     Info(RawEntry(Str(<<" ">>), Str(TitleMix), Absent, Absent, Absent, Absent,
                   Str(<<"1", ":", "0", "1">>), Absent))}

EntryA == RawEntry(Str(<<"a", "1">>), Str(TitleMix), Str(ChannelC), Absent, Absent,
                   Absent, Num(61), Absent)
EntryB == RawEntry(Str(<<"ZWSP", " ", "b", "2">>), None, Absent, Str(ChannelC), Absent,
                   Absent, Absent, Absent)
EntryBlank == RawEntry(Str(<<"ZWSP", " ">>), Str(TitleMix), Absent, Absent, Absent,
                       Absent, Absent, Absent)
EntryNoId == RawEntry(Absent, Str(TitleMix), Absent, Absent, Absent, Absent, Absent, Absent)
EntryEmptyId == RawEntry(Str(<<>>), Str(TitleMix), Absent, Absent, Absent, Absent, Absent,
                         Absent)

PlaylistInfo(title, entries) == [title |-> title, entries |-> entries]

\* What extract_info may do for a playlist URL.
PlaylistOutcomes ==
    {Raised, Nothing,
     Info(PlaylistInfo(Str(TitleMix), List(<<EntryA, EntryBlank, EntryB>>))),
     Info(PlaylistInfo(None, List(<<EntryB, EntryNoId, EntryB>>))),
     Info(PlaylistInfo(Str(<<"ZWSP">>), None))}

ChannelEntry == SubEntry(FALSE, Str(<<"U", "C", "1">>), Absent, Str(ChannelC), Absent)
ChannelEntryNoId == SubEntry(FALSE, Absent, Str(<<>>), Str(ChannelC), Absent)
ChannelEntryNil == SubEntry(TRUE, Absent, Absent, Absent, Absent)

\* What extract_info may do for /feed/channels.
SubOutcomes ==
    {Raised, Nothing, Info(PlaylistInfo(Absent, Absent)), Info(PlaylistInfo(Absent, None))}
    \cup {Info(PlaylistInfo(Absent, List(es))) :
             es \in Seqs({ChannelEntry, ChannelEntryNoId, ChannelEntryNil}, 2)}

OldPlaylist == [playlistName |-> <<"o", "l", "d">>, protected |-> FALSE,
                description |-> <<>>, videos |-> <<>>]
NoFiles == <<>>

\* The file systems a run may start in: no database file, an empty one, one
\* that holds a line, one whose last line is not terminated.
InitialFiles ==
    {NoFiles} \cup {freetube_db_path :> c :
                       c \in {<<>>, <<JsonLine(OldPlaylist)>>,
                              <<JsonLine(OldPlaylist), Json(OldPlaylist)>>}}

\* ------------------------------------------------------------------ state
VARIABLES
    args,                \* the parsed command line
    db_parent,           \* the directory of the database file exists
    files0,              \* the file system when the run starts
    files,               \* the file system
    pc,                  \* where main() is
    exit_status,         \* <<>> while running, <<code>> once the process has exited
    ids,                 \* the IDs read from the ID file
    ft,                  \* the playlist build_freetube_from_ids is filling
    metas,               \* what extract_video_min returned, per ID
    raw_videos,          \* what extract_info did, per ID
    infos,               \* what extract_info did, per playlist URL
    subs_out,            \* what extract_info did for /feed/channels
    freetube_playlists,  \* main's list of built playlists
    piped_sets,          \* main's list of (name, video IDs)
    calls,               \* the exporters invoked, in order
    txt, applied,        \* SpecText: a text, and how often clean_text was applied
    raw_entries, built,  \* SpecEntries: a raw entry list, the playlist built
    split_in, split_out, \* SpecSplit: (name, IDs, N), the files written
    clock,               \* SpecPlaylist: the system clock, in half milliseconds
    playlist,            \* SpecPlaylist: <<>>, then <<the playlist>>
    created,             \* SpecPlaylist: <<the clock value new() read>>
    last_read            \* SpecPlaylist: <<the clock value the last add_video read>>

main_vars == <<args, db_parent, files0, files, pc, exit_status, ids, ft, metas, raw_videos,
               infos, subs_out, freetube_playlists, piped_sets, calls>>
text_vars == <<txt, applied>>
entries_vars == <<raw_entries, built>>
split_vars == <<split_in, split_out>>
playlist_vars == <<clock, playlist, created, last_read>>
vars == <<main_vars, text_vars, entries_vars, split_vars, playlist_vars>>

EmptyPlaylist == new(None, None)

TextIdle == txt = <<>> /\ applied = 0
EntriesIdle == raw_entries = <<>> /\ built = <<>>
SplitIdle == split_in = <<>> /\ split_out = <<>>
PlaylistIdle == clock = 0 /\ playlist = <<>> /\ created = <<>> /\ last_read = <<>>
MainIdle ==
    /\ args = [export |-> "ids", playlist_url |-> <<>>, ids_file |-> NoIdsFile,
               name |-> None, split |-> 0]
    /\ db_parent = TRUE /\ files0 = NoFiles /\ files = NoFiles
    /\ pc = "idle" /\ exit_status = <<>>
    /\ ids = <<>> /\ ft = EmptyPlaylist /\ metas = <<>> /\ raw_videos = <<>>
    /\ infos = <<>> /\ subs_out = <<>>
    /\ freetube_playlists = <<>> /\ piped_sets = <<>> /\ calls = <<>>

\* -------------------------------------------------------------- main()
\* The state at the entry of main(): the command line is parsed, nothing
\* is fetched or written.  The database file is looked at only by the
\* freetube-db export, so only that export starts from more than one file
\* system.
Init ==
    /\ args \in ArgSet
    /\ db_parent \in BOOLEAN
    /\ files0 \in InitialFiles
    /\ (args.export # "freetube-db" => db_parent /\ files0 = NoFiles)
    /\ (files0 # NoFiles => db_parent)
    /\ files = files0
    /\ pc = "start" /\ exit_status = <<>>
    /\ ids = <<>> /\ ft = EmptyPlaylist /\ metas = <<>> /\ raw_videos = <<>>
    /\ infos = <<>> /\ subs_out = <<>>
    /\ freetube_playlists = <<>> /\ piped_sets = <<>> /\ calls = <<>>
    /\ TextIdle /\ EntriesIdle /\ SplitIdle /\ PlaylistIdle

have_urls == Len(args.playlist_url) > 0
have_ids == args.ids_file.given

\* sys.exit(code), a return from main() (code 0), or an exception nobody
\* catches (the interpreter exits with 1).
Exit(code) == pc' = "exit" /\ exit_status' = <<code>>

\* Lines 506-531: the newpipe-subs branch of main().
MainSubscriptions ==
    /\ pc = "start" /\ args.export = "newpipe-subs"
    /\ \E out \in SubOutcomes :
        /\ subs_out' = <<out>>
        /\ IF fetch_subscriptions_raises(out)
           THEN Exit(1) /\ UNCHANGED <<files, calls>>
           ELSE LET subs == fetch_subscriptions_via_ytdlp(out)
                IN  IF subs = <<>>
                    THEN Exit(2) /\ UNCHANGED <<files, calls>>
                    ELSE /\ files' = export_newpipe_subscriptions(files, subs)
                         /\ calls' = Append(calls, "export_newpipe_subscriptions")
                         /\ Exit(0)
    /\ UNCHANGED <<args, db_parent, files0, ids, ft, metas, raw_videos, infos,
                   freetube_playlists, piped_sets>>
    /\ UNCHANGED <<text_vars, entries_vars, split_vars, playlist_vars>>

\* A faulty input check: the help branch is missing, so the usage error is
\* reached.
ResolveInputs_usage ==
    /\ pc = "start" /\ args.export # "newpipe-subs"
    /\ IF ~have_urls /\ ~have_ids THEN Exit(2)
       ELSE pc' = (IF have_ids THEN "read_ids" ELSE "urls") /\ UNCHANGED exit_status
    /\ UNCHANGED <<args, db_parent, files0, files, ids, ft, metas, raw_videos, infos,
                   subs_out, freetube_playlists, piped_sets, calls>>
    /\ UNCHANGED <<text_vars, entries_vars, split_vars, playlist_vars>>

\* Lines 533-554: the input checks of main(), then the client and the two
\* empty lists.
ResolveInputs ==
    /\ pc = "start" /\ args.export # "newpipe-subs"
    /\ IF ~have_urls /\ ~have_ids /\ args.export # "newpipe-subs" THEN Exit(0)
       ELSE IF ~have_urls /\ ~have_ids THEN Exit(2)
       ELSE pc' = (IF have_ids THEN "read_ids" ELSE "urls") /\ UNCHANGED exit_status
    /\ UNCHANGED <<args, db_parent, files0, files, ids, ft, metas, raw_videos, infos,
                   subs_out, freetube_playlists, piped_sets, calls>>
    /\ UNCHANGED <<text_vars, entries_vars, split_vars, playlist_vars>>

\* default_name of line 561; the stem of the ID file's name is never empty
\* here, so the third alternative is not reached.
default_name == Or(args.name, Str(IdsFileStem))

\* The last loop of the inputs is over: Dispatch follows.
AfterIds == IF have_urls THEN "urls" ELSE "dispatch"

\* A faulty ID-file step: an empty ID list does not stop the run.
ReadIds_noexit ==
    /\ pc = "read_ids"
    /\ IF ~args.ids_file.exists THEN Exit(1) /\ UNCHANGED <<ids, ft>>
       ELSE /\ ids' = read_ids_file(args.ids_file.lines)
            /\ ft' = new(default_name, None)
            /\ pc' = (IF ids' = <<>> THEN AfterIds ELSE "build_ids")
            /\ UNCHANGED exit_status
    /\ UNCHANGED <<args, db_parent, files0, files, metas, raw_videos, infos, subs_out,
                   freetube_playlists, piped_sets, calls>>
    /\ UNCHANGED <<text_vars, entries_vars, split_vars, playlist_vars>>

\* Lines 556-562: read the ID file; no valid ID is exit 1; else the builder
\* starts with a new playlist.
ReadIds ==
    /\ pc = "read_ids"
    /\ IF ~args.ids_file.exists THEN Exit(1) /\ UNCHANGED <<ids, ft>>
       ELSE /\ ids' = read_ids_file(args.ids_file.lines)
            /\ IF ids' = <<>> THEN Exit(1) /\ UNCHANGED ft
               ELSE /\ ft' = new(default_name, None)
                    /\ pc' = "build_ids" /\ UNCHANGED exit_status
    /\ UNCHANGED <<args, db_parent, files0, files, metas, raw_videos, infos, subs_out,
                   freetube_playlists, piped_sets, calls>>
    /\ UNCHANGED <<text_vars, entries_vars, split_vars, playlist_vars>>

\* Lines 448-453 and, after the last ID, 563-564: one fetch of
\* build_freetube_from_ids, and the finished playlist joins main's lists.
FetchVideo ==
    /\ pc = "build_ids"
    /\ LET vid == ids[Len(ft.videos) + 1]
       IN  \E out \in VideoOutcomes(vid) :
            LET meta == extract_video_min(vid, out)
                ft2 == ids_step(ft, vid, meta)
            IN  /\ raw_videos' = Append(raw_videos, out)
                /\ metas' = Append(metas, meta)
                /\ ft' = ft2
                /\ IF Len(ft2.videos) = Len(ids)
                   THEN /\ freetube_playlists' = Append(freetube_playlists, ft2)
                        /\ piped_sets' = Append(piped_sets, <<ft2.playlistName, VideoIds(ft2)>>)
                        /\ pc' = AfterIds
                   ELSE UNCHANGED <<freetube_playlists, piped_sets, pc>>
    /\ UNCHANGED <<args, db_parent, files0, files, exit_status, ids, infos, subs_out, calls>>
    /\ UNCHANGED <<text_vars, entries_vars, split_vars, playlist_vars>>

\* YTDLPClient.extract_playlist(url) raises: extract_info raised or
\* returned nothing.
extract_playlist_raises(out) == out.r # "info"

\* A faulty URL step: the playlist is exported as soon as it is built.
FetchPlaylist_eager ==
    /\ pc = "urls"
    /\ \E out \in PlaylistOutcomes :
        /\ infos' = Append(infos, out)
        /\ IF extract_playlist_raises(out)
           THEN Exit(1) /\ UNCHANGED <<freetube_playlists, piped_sets, files>>
           ELSE LET name == IF Len(args.playlist_url) = 1 /\ Truthy(args.name)
                            THEN args.name ELSE None
                    ft2 == build_freetube_from_entries(out.info[1], name, None)
                IN  /\ freetube_playlists' = Append(freetube_playlists, ft2)
                    /\ piped_sets' = Append(piped_sets, <<ft2.playlistName, VideoIds(ft2)>>)
                    /\ files' = export_urls(files, VideoIds(ft2))
                    /\ pc' = (IF Len(infos') = Len(args.playlist_url)
                              THEN "dispatch" ELSE "urls")
                    /\ UNCHANGED exit_status
    /\ UNCHANGED <<args, db_parent, files0, ids, ft, metas, raw_videos, subs_out, calls>>
    /\ UNCHANGED <<text_vars, entries_vars, split_vars, playlist_vars>>

\* Lines 566-571: one iteration of the loop over the playlist URLs; a
\* fetch that raises is caught by nobody.
FetchPlaylist ==
    /\ pc = "urls"
    /\ \E out \in PlaylistOutcomes :
        /\ infos' = Append(infos, out)
        /\ IF extract_playlist_raises(out)
           THEN Exit(1) /\ UNCHANGED <<freetube_playlists, piped_sets>>
           ELSE LET name == IF Len(args.playlist_url) = 1 /\ Truthy(args.name)
                            THEN args.name ELSE None
                    ft2 == build_freetube_from_entries(out.info[1], name, None)
                IN  /\ freetube_playlists' = Append(freetube_playlists, ft2)
                    /\ piped_sets' = Append(piped_sets, <<ft2.playlistName, VideoIds(ft2)>>)
                    /\ pc' = (IF Len(infos') = Len(args.playlist_url)
                              THEN "dispatch" ELSE "urls")
                    /\ UNCHANGED exit_status
    /\ UNCHANGED <<args, db_parent, files0, files, ids, ft, metas, raw_videos, subs_out,
                   calls>>
    /\ UNCHANGED <<text_vars, entries_vars, split_vars, playlist_vars>>

\* ------------------------------------------------------------- Dispatch
\* Every exporter below returns and main() returns after it: exit 0.
\* Line 573-576, one iteration: export_freetube_db for the next playlist.
\* A missing parent directory raises FileNotFoundError, caught by nobody.
ExportFreetubeDb ==
    /\ pc = "dispatch" /\ args.export = "freetube-db"
    /\ LET pl == freetube_playlists[Len(calls) + 1]
       IN  IF ~db_parent THEN Exit(1) /\ UNCHANGED <<files, calls>>
           ELSE /\ files' = export_freetube_db(files, pl)
                /\ calls' = Append(calls, "export_freetube_db")
                /\ IF Len(calls') = Len(freetube_playlists) THEN Exit(0)
                   ELSE UNCHANGED <<pc, exit_status>>
    /\ UNCHANGED <<args, db_parent, files0, ids, ft, metas, raw_videos, infos, subs_out,
                   freetube_playlists, piped_sets>>
    /\ UNCHANGED <<text_vars, entries_vars, split_vars, playlist_vars>>

RECURSIVE freetube_json_all(_, _)
\* Lines 582-586: one file per playlist in the directory freetube_json_playlists.
freetube_json_all(fs, pls) ==
    IF pls = <<>> THEN fs
    ELSE freetube_json_all(
             export_freetube_json(fs, Head(pls), "freetube_json_playlists",
                                  sanitize_name(Head(pls).playlistName) \o DotJson),
             Tail(pls))

\* Lines 578-587.
ExportFreetubeJson ==
    /\ pc = "dispatch" /\ args.export = "freetube-json"
    /\ files' = IF Len(freetube_playlists) = 1
                THEN export_freetube_json(files, freetube_playlists[1], ".", <<>>)
                ELSE freetube_json_all(files, freetube_playlists)
    /\ calls' = calls \o [i \in 1..Len(freetube_playlists) |-> "export_freetube_json"]
    /\ Exit(0)
    /\ UNCHANGED <<args, db_parent, files0, ids, ft, metas, raw_videos, infos, subs_out,
                   freetube_playlists, piped_sets>>
    /\ UNCHANGED <<text_vars, entries_vars, split_vars, playlist_vars>>

\* Lines 589-595 with --split.
ExportPipedJsonSplit ==
    /\ pc = "dispatch" /\ args.export = "piped-json" /\ args.split # 0
    /\ files' = export_piped_json_split(files, piped_sets, args.split)
    /\ calls' = Append(calls, "export_piped_json_split")
    /\ Exit(0)
    /\ UNCHANGED <<args, db_parent, files0, ids, ft, metas, raw_videos, infos, subs_out,
                   freetube_playlists, piped_sets>>
    /\ UNCHANGED <<text_vars, entries_vars, split_vars, playlist_vars>>

\* Lines 589-595 without --split.
ExportPipedJson ==
    /\ pc = "dispatch" /\ args.export = "piped-json" /\ args.split = 0
    /\ files' = export_piped_json(files, piped_sets)
    /\ calls' = Append(calls, "export_piped_json")
    /\ Exit(0)
    /\ UNCHANGED <<args, db_parent, files0, ids, ft, metas, raw_videos, infos, subs_out,
                   freetube_playlists, piped_sets>>
    /\ UNCHANGED <<text_vars, entries_vars, split_vars, playlist_vars>>

\* Lines 597-602.
ExportPipedCsv ==
    /\ pc = "dispatch" /\ args.export = "piped-csv"
    /\ files' = export_piped_csv(files, Flatten(piped_sets))
    /\ calls' = Append(calls, "export_piped_csv")
    /\ Exit(0)
    /\ UNCHANGED <<args, db_parent, files0, ids, ft, metas, raw_videos, infos, subs_out,
                   freetube_playlists, piped_sets>>
    /\ UNCHANGED <<text_vars, entries_vars, split_vars, playlist_vars>>

\* Lines 604-609.
ExportUrls ==
    /\ pc = "dispatch" /\ args.export = "urls"
    /\ files' = export_urls(files, Flatten(piped_sets))
    /\ calls' = Append(calls, "export_urls")
    /\ Exit(0)
    /\ UNCHANGED <<args, db_parent, files0, ids, ft, metas, raw_videos, infos, subs_out,
                   freetube_playlists, piped_sets>>
    /\ UNCHANGED <<text_vars, entries_vars, split_vars, playlist_vars>>

\* Lines 611-616.
ExportIds ==
    /\ pc = "dispatch" /\ args.export = "ids"
    /\ files' = export_ids(files, Flatten(piped_sets))
    /\ calls' = Append(calls, "export_ids")
    /\ Exit(0)
    /\ UNCHANGED <<args, db_parent, files0, ids, ft, metas, raw_videos, infos, subs_out,
                   freetube_playlists, piped_sets>>
    /\ UNCHANGED <<text_vars, entries_vars, split_vars, playlist_vars>>

Next ==
    \/ MainSubscriptions
    \/ ResolveInputs
    \/ ReadIds
    \/ FetchVideo
    \/ FetchPlaylist
    \/ ExportFreetubeDb
    \/ ExportFreetubeJson
    \/ ExportPipedJsonSplit
    \/ ExportPipedJson
    \/ ExportPipedCsv
    \/ ExportUrls
    \/ ExportIds

Spec == Init /\ [][Next]_vars

\* ------------------------------------------------------------- SpecText
\* clean_text applied, again and again, to every text of at most MaxLen
\* characters.
MaxApply == 2
TextChars == {" ", "NBSP", "ZWSP", "LDR", "a"}

InitText ==
    /\ txt \in Seqs(TextChars, MaxLen) /\ applied = 0
    /\ MainIdle /\ EntriesIdle /\ SplitIdle /\ PlaylistIdle

ApplyCleanText ==
    /\ applied < MaxApply
    /\ txt' = clean_text(Str(txt))
    /\ applied' = applied + 1
    /\ UNCHANGED <<main_vars, entries_vars, split_vars, playlist_vars>>

NextText == ApplyCleanText

SpecText == InitText /\ [][NextText]_vars

\* ---------------------------------------------------------- SpecEntries
\* build_freetube_from_entries applied to every entry list of at most
\* MaxEntries of these raw entries.
RawEntries == {EntryA, EntryB, EntryBlank, EntryNoId, EntryEmptyId}

InitEntries ==
    /\ raw_entries \in Seqs(RawEntries, MaxEntries) /\ built = <<>>
    /\ MainIdle /\ TextIdle /\ SplitIdle /\ PlaylistIdle

BuildFromEntries ==
    /\ built = <<>>
    /\ built' = <<build_freetube_from_entries(PlaylistInfo(Str(TitleMix), List(raw_entries)),
                                              None, None)>>
    /\ UNCHANGED <<raw_entries, main_vars, text_vars, split_vars, playlist_vars>>

NextEntries == BuildFromEntries

SpecEntries == InitEntries /\ [][NextEntries]_vars

\* ------------------------------------------------------------ SpecSplit
\* export_piped_json_split applied to one playlist of at most MaxVids
\* videos, for every chunk size from 1 to MaxSplit.
InitSplit ==
    /\ split_in \in {<<ArgName, vids, n>> :
                        vids \in Seqs({<<"a">>, <<"b">>}, MaxVids), n \in 1..MaxSplit}
    /\ split_out = <<>>
    /\ MainIdle /\ TextIdle /\ EntriesIdle /\ PlaylistIdle

ApplySplit ==
    /\ split_out = <<>>
    /\ split_out' = <<split_writes(<< <<split_in[1], split_in[2]>> >>, split_in[3])>>
    /\ UNCHANGED <<split_in, main_vars, text_vars, entries_vars, playlist_vars>>

NextSplit == ApplySplit

SpecSplit == InitSplit /\ [][NextSplit]_vars

\* --------------------------------------------------------- SpecPlaylist
\* A playlist is created and videos are added to it while the system
\* clock runs.  time.time() is the wall clock: it advances, and it
\* returns a lower value than before when the system clock was set back.
MaxClock == 6
MaxAdds == 2

\* round(x) of x = h / 2: to the nearest integer, a tie to the even one.
Round2(h) == IF h % 2 = 0 THEN h \div 2
             ELSE IF ((h - 1) \div 2) % 2 = 0 THEN (h - 1) \div 2 ELSE (h + 1) \div 2

\* now_ms(): int(round(time() * 1000)), the clock h counting half milliseconds.
now_ms(h) == Round2(h)

\* FreeTubePlaylist.new(name, description) with the two timestamps it sets
\* from one reading ts of the clock.
new_stamped(name, description, ts) ==
    [playlistName |-> new(name, description).playlistName,
     protected |-> new(name, description).protected,
     description |-> new(name, description).description,
     videos |-> new(name, description).videos,
     createdAt |-> ts, lastUpdatedAt |-> ts]

\* FreeTubePlaylist.add_video(v), ts being its own reading of the clock.
add_video_stamped(p, v, ts) == [add_video(p, v) EXCEPT !.lastUpdatedAt = ts]

InitPlaylist ==
    /\ clock \in 0..MaxClock /\ playlist = <<>> /\ created = <<>> /\ last_read = <<>>
    /\ MainIdle /\ TextIdle /\ EntriesIdle /\ SplitIdle

\* Time passes.
Tick ==
    /\ clock < MaxClock
    /\ clock' = clock + 1
    /\ UNCHANGED <<playlist, created, last_read, main_vars, text_vars, entries_vars, split_vars>>

\* The system clock is set back (an NTP step, the user changing the time).
ClockSetBack ==
    /\ \E c \in 0..(clock - 1) : clock' = c
    /\ UNCHANGED <<playlist, created, last_read, main_vars, text_vars, entries_vars, split_vars>>

NewPlaylist ==
    /\ playlist = <<>>
    /\ playlist' = <<new_stamped(Str(TitleMix), None, now_ms(clock))>>
    /\ created' = <<now_ms(clock)>>
    /\ UNCHANGED <<clock, last_read, main_vars, text_vars, entries_vars, split_vars>>

AddVideo ==
    /\ playlist # <<>> /\ Len(playlist[1].videos) < MaxAdds
    /\ \E e \in {EntryA, EntryB} :
         playlist' = <<add_video_stamped(playlist[1], from_ytdlp_entry(e), now_ms(clock))>>
    /\ last_read' = <<now_ms(clock)>>
    /\ UNCHANGED <<clock, created, main_vars, text_vars, entries_vars, split_vars>>

NextPlaylist == Tick \/ ClockSetBack \/ NewPlaylist \/ AddVideo

SpecPlaylist == InitPlaylist /\ [][NextPlaylist]_vars

\* =============================================================== claims
NoInput == args.export # "newpipe-subs" /\ ~have_urls /\ ~have_ids
NothingWritten == files = files0 /\ calls = <<>>
NothingFetched == raw_videos = <<>> /\ metas = <<>> /\ infos = <<>> /\ subs_out = <<>>

\* C1, as claimed: a run with an export type other than newpipe-subs and
\* with neither a playlist URL nor an ID file exits with status 2 and
\* writes no output file.
C1_NoInputExits2 ==
    (NoInput /\ pc # "start") => (pc = "exit" /\ exit_status = <<2>> /\ NothingWritten)

\* C1, amended: such a run ends in the help branch, which the input check
\* reaches first: it exits with status 0, and no output file is written and
\* nothing is fetched.
C1_NoInputShowsHelp ==
    (NoInput /\ pc # "start")
        => (pc = "exit" /\ exit_status = <<0>> /\ NothingWritten /\ NothingFetched)

C1_Witness == NoInput /\ pc = "exit" /\ args.export = "piped-csv"

\* No entry of the subscription feed gives a channel: the entry is None or
\* it has neither a channel_id nor an id.
NoChannel(e) == e.nil \/ (~Truthy(Get(e.channel_id)) /\ ~Truthy(Get(e.id)))
SubsFetchedEmpty ==
    /\ subs_out # <<>> /\ subs_out[1].r = "info" /\ subs_out[1].info[1].entries.k = "list"
    /\ \A i \in 1..Len(subs_out[1].info[1].entries.v) :
          NoChannel(subs_out[1].info[1].entries.v[i])
SubsFetchThrew == subs_out # <<>> /\ subs_out[1].r = "raise"

\* C2: in subscription mode, a fetch that returns zero entries ends the
\* process with status 2, a fetch that throws ends it with status 1, and
\* in both cases export_newpipe_subscriptions is not invoked and no file is
\* written.
C2_EmptySubscriptionsExit2 ==
    /\ SubsFetchedEmpty => (pc = "exit" /\ exit_status = <<2>> /\ NothingWritten)
    /\ SubsFetchThrew => (pc = "exit" /\ exit_status = <<1>> /\ NothingWritten)

C2_Witness ==
    /\ SubsFetchedEmpty /\ pc = "exit"
    /\ Len(subs_out[1].info[1].entries.v) = 2

\* The fetch of the i-th ID failed (it raised, or returned nothing) or
\* returned a record with no title.
FetchFailedOrNoTitle(i) ==
    \/ raw_videos[i].r # "info"
    \/ Get(raw_videos[i].info[1].title).k = "none"

\* The playlist built from the ID file: the one being filled, then the
\* first of main's list.
IdsPlaylist == IF pc = "build_ids" THEN ft ELSE freetube_playlists[1]
IdsBuilt == have_ids /\ pc \in {"urls", "dispatch", "exit"} /\ ids # <<>>

\* C3: build_freetube_from_ids never ends the run, whatever the fetches
\* do; it makes one fetch per ID and returns one video per ID, in input
\* order; a video whose fetch failed or returned no title has the input ID
\* and the default values in title, author, authorId, lengthSeconds and
\* published.
C3_IdsBuildNeverAborts ==
    /\ pc = "build_ids"
         => (exit_status = <<>> /\ Len(ft.videos) = Len(raw_videos)
             /\ Len(raw_videos) < Len(ids))
    /\ IdsBuilt
         => (Len(raw_videos) = Len(ids) /\ Len(freetube_playlists) >= 1
             /\ Len(freetube_playlists[1].videos) = Len(ids))
    /\ (pc = "build_ids" \/ IdsBuilt)
         => \A i \in 1..Len(raw_videos) :
                FetchFailedOrNoTitle(i)
                    => IdsPlaylist.videos[i] =
                         [videoId |-> ids[i], title |-> NA, author |-> NA, authorId |-> NA,
                          lengthSeconds |-> 0, published |-> 0]

C3_Witness ==
    /\ IdsBuilt /\ Len(ids) = 2
    /\ raw_videos[1].r = "raise"
    /\ raw_videos[2].r = "info" /\ Get(raw_videos[2].info[1].title).k = "none"

HasVid(e) == EntryVid(e) # <<>>

\* C4: the videos of the playlist build_freetube_from_entries returns are
\* the mapped records of exactly the entries whose cleaned ID is not empty,
\* in the order of the entry list, duplicates included.
C4_EntriesKeptInOrder ==
    built # <<>>
        => LET kept == SelectSeq(raw_entries, HasVid)
           IN  /\ Len(built[1].videos) = Len(kept)
               /\ \A j \in 1..Len(kept) : built[1].videos[j] = from_ytdlp_entry(kept[j])

C4_Witness ==
    /\ built # <<>> /\ raw_entries = <<EntryA, EntryBlank, EntryB>>
    /\ Len(built[1].videos) = 2

\* The three digits of k < 1000.
ThreeDigits(k) ==
    <<DigitChars[((k \div 100) % 10) + 1], DigitChars[((k \div 10) % 10) + 1],
      DigitChars[(k % 10) + 1]>>
CeilDiv(n, d) == (n + d - 1) \div d
ChunkVideos(w) == w.content[1].json.playlists[1].videos

RECURSIVE ConcatChunks(_)
ConcatChunks(ws) == IF ws = <<>> THEN <<>> ELSE ChunkVideos(Head(ws)) \o ConcatChunks(Tail(ws))

\* C5: for n videos and chunk size N >= 1 the chunked export writes
\* ceil(n/N) files, the k-th with the suffix _00k; chunk k holds the watch
\* URLs of the videos at positions (k-1)*N .. min(k*N, n)-1, so every chunk
\* but the last has N videos and the chunks, in order, give back the list.
C5_ChunksPartitionInOrder ==
    split_out # <<>>
        => LET name == split_in[1]
               vids == split_in[2]
               N == split_in[3]
               n == Len(vids)
               ws == split_out[1]
           IN  /\ Len(ws) = CeilDiv(n, N)
               /\ \A k \in 1..Len(ws) :
                     /\ ws[k].path.file = Piped \o <<"_">> \o sanitize_name(name) \o <<"_">>
                                              \o ThreeDigits(k) \o DotJson
                     /\ Len(ChunkVideos(ws[k])) = (IF k * N <= n THEN N ELSE n - (k - 1) * N)
                     /\ \A j \in 1..Len(ChunkVideos(ws[k])) :
                           ChunkVideos(ws[k])[j] = WatchUrl \o vids[(k - 1) * N + j]
               /\ ConcatChunks(ws) = [i \in 1..n |-> WatchUrl \o vids[i]]

C5_Witness ==
    /\ split_out # <<>> /\ Len(split_in[2]) = 7 /\ split_in[3] = 3
    /\ Len(split_out[1]) = 3
    /\ Len(ChunkVideos(split_out[1][3])) = 1

PriorDb == IF freetube_db_path \in DOMAIN files0 THEN files0[freetube_db_path] ELSE <<>>

\* C6: after k successful export_freetube_db calls the database file holds
\* what it held when the run started, followed by k newline-terminated JSON
\* lines, one per playlist, in call order.
C6_DbOnlyAppends ==
    (args.export = "freetube-db" /\ Len(calls) >= 1)
        => /\ freetube_db_path \in DOMAIN files
           /\ files[freetube_db_path] =
                PriorDb \o [i \in 1..Len(calls) |->
                              [json |-> freetube_playlists[i], nl |-> TRUE]]

C6_Witness ==
    /\ args.export = "freetube-db" /\ Len(calls) = 2 /\ Len(PriorDb) = 2
    /\ Len(files[freetube_db_path]) = 4

\* C7, as claimed: clean_text is idempotent: applying it to its own result
\* changes nothing.
C7_CleanTextIdempotent == applied >= 1 => clean_text(Str(txt)) = txt

\* A line of the ID file that read_ids_file scans: not blank, no comment.
Scanned(raw) == Strip(raw, Whitespace) # <<>> /\ Head(Strip(raw, Whitespace)) # "#"
NoValidId == \A i \in 1..Len(args.ids_file.lines) :
                ~Scanned(args.ids_file.lines[i])
                \/ \A p \in 1..Len(args.ids_file.lines[i]) : ~MatchAt(args.ids_file.lines[i], p)
\* main() has read the ID file (the newpipe-subs branch never does).
IdsFileRead ==
    /\ args.export # "newpipe-subs" /\ have_ids /\ args.ids_file.exists
    /\ pc \notin {"start", "read_ids"}

\* C8: when main() reads the ID file, blank lines and #-lines give no ID
\* and every other line gives at most one; when the file gives no ID at
\* all the run exits with status 1 before any fetch and without writing,
\* playlist URLs or not.
C8_NoValidIdsExit1 ==
    /\ IdsFileRead
         => Len(ids) <= Cardinality({i \in 1..Len(args.ids_file.lines) :
                                       Scanned(args.ids_file.lines[i])})
    /\ (IdsFileRead /\ NoValidId)
         => (pc = "exit" /\ exit_status = <<1>> /\ NothingFetched /\ NothingWritten)

C8_Witness ==
    /\ IdsFileRead /\ NoValidId /\ pc = "exit"
    /\ Len(args.ids_file.lines) = 4 /\ Len(args.playlist_url) = 2

\* The ID of the video the builder makes of the i-th fetched record.
IdOfFetched(i) ==
    IF metas[i].id.k # "absent" /\ Get(metas[i].title).k # "none"
    THEN clean_text(Or(Get(metas[i].id), Str(NA))) ELSE ids[i]

NotEmpty(s) == s # <<>>
\* The cleaned, non-empty IDs of the entries the i-th playlist URL gave.
IdsOfUrl(i) ==
    LET es == Or(Get(infos[i].info[1].entries), List(<<>>)).v
    IN  SelectSeq([j \in 1..Len(es) |-> EntryVid(es[j])], NotEmpty)

RECURSIVE IdsOfUrls(_)
IdsOfUrls(i) == IF i > Len(infos) THEN <<>> ELSE IdsOfUrl(i) \o IdsOfUrls(i + 1)

\* The IDs a run is to write: the ID file's, then each URL's, in order.
ExpectedIds == [i \in 1..Len(metas) |-> IdOfFetched(i)] \o IdsOfUrls(1)

\* C9: the piped-csv, urls and ids exports write, in one file and by one
\* exporter call, the IDs of the ID-file playlist first and then those of
\* each playlist URL in the order given, none dropped, merged or moved.
C9_SingleListConcatenates ==
    (pc = "exit" /\ exit_status = <<0>> /\ args.export \in {"piped-csv", "urls", "ids"}
     /\ ~NoInput)
        => /\ Len(calls) = 1
           /\ args.export = "ids"
                => /\ DOMAIN files = {Path(".", IdsTxt)}
                   /\ files[Path(".", IdsTxt)] = ExpectedIds
           /\ args.export = "urls"
                => /\ DOMAIN files = {Path(".", UrlsTxt)}
                   /\ files[Path(".", UrlsTxt)] =
                        [i \in 1..Len(ExpectedIds) |-> WatchUrlWww \o ExpectedIds[i]]
           /\ args.export = "piped-csv"
                => /\ DOMAIN files = {Path(".", PipedCsv)}
                   /\ files[Path(".", PipedCsv)] =
                        <<CsvHeader>> \o [i \in 1..Len(ExpectedIds) |-> ExpectedIds[i] \o <<",">>]

C9_Witness ==
    /\ pc = "exit" /\ exit_status = <<0>> /\ args.export = "piped-csv"
    /\ Len(metas) = 2 /\ Len(infos) = 2
    /\ Len(IdsOfUrl(1)) = 2 /\ Len(IdsOfUrl(2)) = 2 /\ IdsOfUrl(1) # IdsOfUrl(2)

SomeUrlFetchFailed == \E i \in 1..Len(infos) : infos[i].r # "info"
AllInputsBuilt ==
    /\ Len(infos) = Len(args.playlist_url)
    /\ ~SomeUrlFetchFailed
    /\ have_ids => (ids # <<>> /\ Len(metas) = Len(ids))
    /\ Len(freetube_playlists) = Len(infos) + (IF have_ids THEN 1 ELSE 0)

\* C10: Dispatch starts, and a file is written or an exporter invoked,
\* only after every input has been fetched and built; when the fetch of a
\* playlist URL fails the run ends with a non-zero status and nothing has
\* been written or appended, whatever was built before.
C10_DispatchAfterAllFetched ==
    /\ (args.export # "newpipe-subs" /\ (pc = "dispatch" \/ ~NothingWritten))
         => AllInputsBuilt
    /\ SomeUrlFetchFailed
         => (pc = "exit" /\ exit_status # <<>> /\ exit_status # <<0>> /\ NothingWritten)

C10_Witness ==
    /\ pc = "exit" /\ Len(infos) = 2 /\ infos[1].r = "info" /\ infos[2].r = "raise"
    /\ have_ids /\ Len(freetube_playlists) = 2 /\ args.export = "freetube-db"
    /\ files0 # NoFiles

RECURSIVE ChunkCount(_, _)
\* The sum over the playlists of ceil(len(videos) / N).
ChunkCount(sets, N) ==
    IF sets = <<>> THEN 0 ELSE CeilDiv(Len(Head(sets)[2]), N) + ChunkCount(Tail(sets), N)

SplitExported ==
    /\ pc = "exit" /\ exit_status = <<0>> /\ args.export = "piped-json" /\ args.split # 0
    /\ calls = <<"export_piped_json_split">>

\* C11, as claimed: after a chunked export over several playlists every
\* (playlist, chunk index) pair has a file of its own, none overwritten by
\* a chunk of another playlist: the output directory holds as many files
\* as the sum over the playlists of ceil(len(videos) / N), and the file of
\* each chunk still holds that chunk.
C11_ChunkFilesDistinct ==
    SplitExported
        => /\ Cardinality(DOMAIN files) = ChunkCount(piped_sets, args.split)
           /\ \A k \in 1..Len(split_writes(piped_sets, args.split)) :
                 LET w == split_writes(piped_sets, args.split)[k]
                 IN  w.path \in DOMAIN files /\ files[w.path] = w.content

\* createdAt is the value new() read; lastUpdatedAt is the value the most
\* recent add_video read, or createdAt when there was none.
TimestampsTrackClock ==
    playlist # <<>>
        => /\ playlist[1].createdAt = created[1]
           /\ playlist[1].lastUpdatedAt = (IF last_read = <<>> THEN created[1] ELSE last_read[1])

\* C12, as claimed: after creation and after any sequence of add_video
\* calls createdAt is the value set at creation, lastUpdatedAt is the clock
\* value the most recent add_video read (createdAt if none), and
\* lastUpdatedAt >= createdAt.
C12_TimestampsOrdered ==
    /\ TimestampsTrackClock
    /\ playlist # <<>> => playlist[1].lastUpdatedAt >= playlist[1].createdAt

\* Every video of the playlist p carries a non-empty videoId.
AllIdsNonEmpty(p) == \A i \in 1..Len(p.videos) : p.videos[i].videoId # <<>>

\* C13, as claimed: every video record committed to a playlist, by
\* build_freetube_from_ids or by build_freetube_from_entries and whatever
\* raw record the extractor returned, has a non-empty videoId.
C13_VideoIdNeverEmpty ==
    /\ AllIdsNonEmpty(ft)
    /\ \A i \in 1..Len(freetube_playlists) : AllIdsNonEmpty(freetube_playlists[i])

====
